---- MODULE Spec2Model ----
(***************************************************************************)
(* dbbench: the run-file parsers (INI and JSON) and the top-level          *)
(* orchestrator (main, runTest).                                           *)
(*                                                                         *)
(* Abstractions used throughout:                                           *)
(*  - durations (start, stop, duration) are integers in one time unit;     *)
(*  - a job's Queries slice is represented by its length;                  *)
(*  - an opened file (query log, args file, results writer) is a boolean;  *)
(*  - a float64 rate is an integer, plus the value NaN that                *)
(*    strconv.ParseFloat produces for the INI text "NaN";                  *)
(*  - the "concurrency" alias of queue-depth is left out of the inputs.    *)
(***************************************************************************)
EXTENDS Integers, Sequences, FiniteSets, TLC

\* ---------------------------------------------------------------- bounds
MaxTime == 2

MaxDuration == 1

MaxQueries == 2

MaxRate == 1

MaxBatchSize == 1

MaxQueueDepth == 1

MaxCount == 1

MaxJobs == 2

MaxSetup == 2

MaxTeardown == 2

\* ------------------------------------------------------- float64 for Rate
\* The float64 NaN, encoded as an integer outside the range of the rates.
NaN == -2

\* Go's float comparisons: every comparison with NaN is false.
FloatLess(a, b) == a # NaN /\ b # NaN /\ a < b

FloatGreater(a, b) == a # NaN /\ b # NaN /\ a > b

FloatEqual(a, b) == a # NaN /\ b # NaN /\ a = b

\* ------------------------------------------------------------- data types
\* type Job: the zero value produced by new(Job).
NewJob ==
  [Start |-> 0, Stop |-> 0, Queries |-> 0, QueryLog |-> FALSE,
   QueryArgs |-> FALSE, Comma |-> FALSE, QueryResults |-> FALSE,
   Rate |-> 0, BatchSize |-> 0, QueueDepth |-> 0, Count |-> 0]

\* type jobParser, as built by jobParser{j: job, df: df, basedir: basedir}.
NewJobParser ==
  [j |-> NewJob, queryArgsFile |-> FALSE, queryArgsDelim |-> FALSE,
   multiQueryAllowed |-> FALSE]

\* type JobOptions: one job as written in the run-file (either syntax).
JobOptions(starts, stops, queries, rates, batches, depths, counts) ==
  [Start : starts, Stop : stops, Queries : queries,
   QueryArgsFile : BOOLEAN, QueryArgsDelim : BOOLEAN,
   QueryResultsFile : BOOLEAN, Rate : rates, BatchSize : batches,
   QueueDepth : depths, Count : counts, MultiQueryMode : BOOLEAN,
   QueryLogFile : BOOLEAN]

\* The result of a function returning (value, error): err = "" is nil.
Accept(job, created) == [err |-> "", job |-> job, created |-> created]

Reject(msg, created) == [err |-> msg, job |-> NewJob, created |-> created]

\* ------------------------------------------------ helpers not in the source
\* isFieldSet(v, name): the field holds a value other than its zero value.
isFieldSet(value, zero) == value # zero

\* NewSafeCSVWriter(path): creates the file, truncating an existing one;
\* TRUE is the file having been created or truncated.
NewSafeCSVWriter == TRUE

\* ------------------------------------------------------------ the INI path
\* jobOptionsDecode with the "stop" callback storing into Start.
jobOptionsDecodeStopIntoStart(section, resultsParsed) ==
  LET rateErr == FloatLess(section.Rate, 0)
      jp == [NewJobParser EXCEPT
               !.j.Start = section.Stop,
               !.j.Queries = section.Queries,
               !.queryArgsFile = section.QueryArgsFile,
               !.queryArgsDelim = section.QueryArgsDelim,
               !.j.QueryResults = section.QueryResultsFile,
               !.j.Rate = section.Rate,
               !.j.BatchSize = section.BatchSize,
               !.j.QueueDepth = section.QueueDepth,
               !.j.Count = section.Count,
               !.multiQueryAllowed = section.MultiQueryMode,
               !.j.QueryLog = section.QueryLogFile]
  IN [err |-> IF rateErr THEN "invalid negative value for rate" ELSE "",
      jp |-> jp,
      created |-> section.QueryResultsFile /\ (rateErr => resultsParsed)
                  /\ NewSafeCSVWriter]

\* jobOptions.Decode: the options of the section are handed to their Parse
\* callbacks, which store the values in the jobParser; "rate" rejects a
\* negative value.  resultsParsed: the "query-results-file" option was
\* handed to its callback before Decode returned (it always is when no
\* callback fails; when "rate" fails it depends on the order of the options).
jobOptionsDecode(section, resultsParsed) ==
  LET rateErr == FloatLess(section.Rate, 0)
      jp == [NewJobParser EXCEPT
               !.j.Start = section.Start,
               !.j.Stop = section.Stop,
               !.j.Queries = section.Queries,
               !.queryArgsFile = section.QueryArgsFile,
               !.queryArgsDelim = section.QueryArgsDelim,
               !.j.QueryResults = section.QueryResultsFile,
               !.j.Rate = section.Rate,
               !.j.BatchSize = section.BatchSize,
               !.j.QueueDepth = section.QueueDepth,
               !.j.Count = section.Count,
               !.multiQueryAllowed = section.MultiQueryMode,
               !.j.QueryLog = section.QueryLogFile]
  IN [err |-> IF rateErr THEN "invalid negative value for rate" ELSE "",
      jp |-> jp,
      created |-> section.QueryResultsFile /\ (rateErr => resultsParsed)
                  /\ NewSafeCSVWriter]

\* decodeJobTypes without the default of one thread.
decodeJobTypesNoDefault(job) ==
  LET differentJobTypes ==
        (IF job.QueueDepth > 0 THEN 1 ELSE 0)
        + (IF job.QueryLog THEN 1 ELSE 0)
        + (IF FloatGreater(job.Rate, 0) THEN 1 ELSE 0)
  IN [err |-> IF differentJobTypes > 1
              THEN "Can only specify one of rate, queue-depth, or query-log-file"
              ELSE "",
      job |-> job]

\* decodeJobTypes refusing only a job that asks for all three modes.
decodeJobTypesLax(job) ==
  LET differentJobTypes ==
        (IF job.QueueDepth > 0 THEN 1 ELSE 0)
        + (IF job.QueryLog THEN 1 ELSE 0)
        + (IF FloatGreater(job.Rate, 0) THEN 1 ELSE 0)
  IN [err |-> IF differentJobTypes > 2
              THEN "Can only specify one of rate, queue-depth, or query-log-file"
              ELSE "",
      job |-> IF differentJobTypes = 0
              THEN [job EXCEPT !.QueueDepth = 1] ELSE job]

\* decodeJobSection, lines 409-426: count the modes the job asks for,
\* default to one thread, refuse more than one mode.
decodeJobTypes(job) ==
  LET differentJobTypes ==
        (IF job.QueueDepth > 0 THEN 1 ELSE 0)
        + (IF job.QueryLog THEN 1 ELSE 0)
        + (IF FloatGreater(job.Rate, 0) THEN 1 ELSE 0)
  IN [err |-> IF differentJobTypes > 1
              THEN "Can only specify one of rate, queue-depth, or query-log-file"
              ELSE "",
      job |-> IF differentJobTypes = 0
              THEN [job EXCEPT !.QueueDepth = 1] ELSE job]

\* decodeJobSection without the refusal of a job that has both queries and
\* a query log.
decodeJobSectionQueriesAndLog(section, resultsParsed) ==
  LET d == jobOptionsDecode(section, resultsParsed)
      jp == d.jp
      job == jp.j
      created == d.created
  IN IF d.err # "" THEN Reject(d.err, created)
     ELSE IF job.Queries = 0 /\ ~job.QueryLog
       THEN Reject("no query provided", created)
     ELSE IF job.Queries > 1 /\ ~jp.multiQueryAllowed
       THEN Reject("must have only one query", created)
     ELSE IF FloatEqual(job.Rate, 0) /\ job.BatchSize > 0
       THEN Reject("can only specify batch-size with rate", created)
     ELSE IF jp.queryArgsDelim /\ ~jp.queryArgsFile
       THEN Reject("Cannot set query-args-delim with no query-args-file",
                   created)
     ELSE IF jp.queryArgsFile /\ job.QueryLog
       THEN Reject("Cannot use query-args-file with query-log-file", created)
     ELSE
       LET types == decodeJobTypes(job)
           job1 == types.job
           job2 == IF FloatGreater(job1.Rate, 0) /\ job1.BatchSize = 0
                   THEN [job1 EXCEPT !.BatchSize = 1] ELSE job1
           job3 == IF jp.queryArgsFile
                   THEN [job2 EXCEPT !.QueryArgs = TRUE,
                                     !.Comma = jp.queryArgsDelim]
                   ELSE job2
       IN IF types.err # ""
          THEN Reject(types.err, created)
          ELSE Accept(job3, created)

\* decodeJobSection, lines 390-440: decode the options, check them, default
\* the mode and the batch size, open the query arguments.
decodeJobSection(section, resultsParsed) ==
  LET d == jobOptionsDecode(section, resultsParsed)
      jp == d.jp
      job == jp.j
      created == d.created
  IN IF d.err # "" THEN Reject(d.err, created)
     ELSE IF job.Queries = 0 /\ ~job.QueryLog
       THEN Reject("no query provided", created)
     ELSE IF job.Queries > 0 /\ job.QueryLog
       THEN Reject("cannot have both queries and a query log", created)
     ELSE IF job.Queries > 1 /\ ~jp.multiQueryAllowed
       THEN Reject("must have only one query", created)
     ELSE IF FloatEqual(job.Rate, 0) /\ job.BatchSize > 0
       THEN Reject("can only specify batch-size with rate", created)
     ELSE IF jp.queryArgsDelim /\ ~jp.queryArgsFile
       THEN Reject("Cannot set query-args-delim with no query-args-file",
                   created)
     ELSE IF jp.queryArgsFile /\ job.QueryLog
       THEN Reject("Cannot use query-args-file with query-log-file", created)
     ELSE
       LET types == decodeJobTypes(job)
           job1 == types.job
           job2 == IF FloatGreater(job1.Rate, 0) /\ job1.BatchSize = 0
                   THEN [job1 EXCEPT !.BatchSize = 1] ELSE job1
           job3 == IF jp.queryArgsFile
                   THEN [job2 EXCEPT !.QueryArgs = TRUE,
                                     !.Comma = jp.queryArgsDelim]
                   ELSE job2
       IN IF types.err # ""
          THEN Reject(types.err, created)
          ELSE Accept(job3, created)

\* ----------------------------------------------------------- the JSON path
\* validateJobTypes counting the query log twice.
validateJobTypesDoubleLog(job) ==
  LET differentJobTypes ==
        (IF job.QueueDepth > 0 THEN 1 ELSE 0)
        + (IF job.QueryLog THEN 2 ELSE 0)
        + (IF FloatGreater(job.Rate, 0) THEN 1 ELSE 0)
  IN IF differentJobTypes = 0
     THEN [err |-> "", job |-> [job EXCEPT !.QueueDepth = 1]]
     ELSE IF differentJobTypes > 1
       THEN [err |-> "Can only specify one of rate, queue-depth, or query-log-file",
             job |-> job]
     ELSE [err |-> "", job |-> job]

\* validateJobTypes defaulting the queue depth whenever it was not given.
validateJobTypesDefaultAlways(job) ==
  LET differentJobTypes ==
        (IF job.QueueDepth > 0 THEN 1 ELSE 0)
        + (IF job.QueryLog THEN 1 ELSE 0)
        + (IF FloatGreater(job.Rate, 0) THEN 1 ELSE 0)
  IN IF job.QueueDepth = 0 /\ differentJobTypes <= 1
     THEN [err |-> "", job |-> [job EXCEPT !.QueueDepth = 1]]
     ELSE IF differentJobTypes > 1
       THEN [err |-> "Can only specify one of rate, queue-depth, or query-log-file",
             job |-> job]
     ELSE [err |-> "", job |-> job]

\* validateJobSection, lines 600-615: the same count, default and refusal.
validateJobTypes(job) ==
  LET differentJobTypes ==
        (IF job.QueueDepth > 0 THEN 1 ELSE 0)
        + (IF job.QueryLog THEN 1 ELSE 0)
        + (IF FloatGreater(job.Rate, 0) THEN 1 ELSE 0)
  IN IF differentJobTypes = 0
     THEN [err |-> "", job |-> [job EXCEPT !.QueueDepth = 1]]
     ELSE IF differentJobTypes > 1
       THEN [err |-> "Can only specify one of rate, queue-depth, or query-log-file",
             job |-> job]
     ELSE [err |-> "", job |-> job]

validateJobSection(jobSpec) ==
  LET Start == IF isFieldSet(jobSpec.Start, 0) THEN jobSpec.Start ELSE 0
      Stop == IF isFieldSet(jobSpec.Stop, 0) THEN jobSpec.Stop ELSE 0
      Queries == IF isFieldSet(jobSpec.Queries, 0) THEN jobSpec.Queries ELSE 0
      queryArgsFile == isFieldSet(jobSpec.QueryArgsFile, FALSE)
      queryArgsDelim == isFieldSet(jobSpec.QueryArgsDelim, FALSE)
      created == isFieldSet(jobSpec.QueryResultsFile, FALSE)
                 /\ NewSafeCSVWriter
      rateSet == isFieldSet(jobSpec.Rate, 0)
      Rate == IF rateSet THEN jobSpec.Rate ELSE 0
      BatchSize == IF isFieldSet(jobSpec.BatchSize, 0)
                   THEN jobSpec.BatchSize ELSE 0
      QueueDepth == IF isFieldSet(jobSpec.QueueDepth, 0)
                    THEN jobSpec.QueueDepth ELSE 0
      Count == IF isFieldSet(jobSpec.Count, 0) THEN jobSpec.Count ELSE 0
      multiQueryAllowed == isFieldSet(jobSpec.MultiQueryMode, FALSE)
                           /\ jobSpec.MultiQueryMode
      QueryLog == isFieldSet(jobSpec.QueryLogFile, FALSE)
      job == [Start |-> Start, Stop |-> Stop, Queries |-> Queries,
              QueryLog |-> QueryLog, QueryArgs |-> FALSE, Comma |-> FALSE,
              QueryResults |-> created, Rate |-> Rate,
              BatchSize |-> BatchSize, QueueDepth |-> QueueDepth,
              Count |-> Count]
  IN IF rateSet /\ FloatLess(jobSpec.Rate, 0)
       THEN Reject("invalid negative value for rate", created)
     ELSE IF job.Queries = 0 /\ ~job.QueryLog
       THEN Reject("no query provided", created)
     ELSE IF job.Queries > 0 /\ job.QueryLog
       THEN Reject("cannot have both queries and a queryLog", created)
     ELSE IF job.Queries > 1 /\ ~multiQueryAllowed
       THEN Reject("must have only one query", created)
     ELSE IF FloatEqual(job.Rate, 0) /\ job.BatchSize > 0
       THEN Reject("can only specify batchSize with rate", created)
     ELSE IF queryArgsDelim /\ ~queryArgsFile
       THEN Reject("Cannot set queryArgsDelim with no queryArgsFile", created)
     ELSE IF queryArgsFile /\ job.QueryLog
       THEN Reject("Cannot use queryArgsFile with queryLogFile", created)
     ELSE
       LET types == validateJobTypes(job)
       IN IF types.err # ""
          THEN Reject(types.err, created)
          ELSE
            LET job1 == types.job
                job2 == IF FloatGreater(job1.Rate, 0) /\ job1.BatchSize = 0
                        THEN [job1 EXCEPT !.BatchSize = 1] ELSE job1
                job3 == IF queryArgsFile
                        THEN [job2 EXCEPT !.QueryArgs = TRUE,
                                          !.Comma = queryArgsDelim]
                        ELSE job2
            IN Accept(job3, created)

\* ------------------------------------------------------ whole-config parse
\* type Config (Flavor and AcceptedErrors left out); Setup and Teardown are
\* the numbers of queries.
NoConfig == [Duration |-> 0, Setup |-> 0, Teardown |-> 0, Jobs |-> << >>]

\* The orders in which n sections can be visited.
Orders(n) == {o \in [1..n -> 1..n] : \A a, b \in 1..n : o[a] = o[b] => a = b}

\* The position in the order of the first visited job that is in the set bad
\* (n + 1 when none is).
FirstBad(order, n, bad) ==
  IF \E k \in 1..n : order[k] \in bad
  THEN CHOOSE k \in 1..n :
         order[k] \in bad /\ \A m \in 1..(k - 1) : order[m] \notin bad
  ELSE n + 1

\* The loop over the job sections shared in shape by decodeConfigJobs and
\* validateConfigJobs: visit the jobs in the given order, stop at the first
\* error; res[i] is the outcome of validating job i.
visitJobs(res, order) ==
  LET n == Len(res)
      bad == {i \in 1..n : res[i].err # ""}
      stop == FirstBad(order, n, bad)
      visited == {order[k] : k \in 1..(IF stop > n THEN n ELSE stop)}
  IN [err |-> IF stop > n THEN "" ELSE res[order[stop]].err,
      Jobs |-> [i \in 1..n |-> res[i].job],
      created |-> {i \in visited : res[i].created}]

\* decodeConfigJobs: the sections in file order.
decodeConfigJobs(jobs, resultsParsed) ==
  visitJobs([i \in 1..Len(jobs) |-> decodeJobSection(jobs[i], resultsParsed)],
            [i \in 1..Len(jobs) |-> i])

\* validateConfigJobs: `range` over a Go map visits the jobs in any order.
validateConfigJobs(jobs, order) ==
  visitJobs([i \in 1..Len(jobs) |-> validateJobSection(jobs[i])], order)

\* parseIniConfig; its last loop refuses a job that starts or stops after
\* the test finishes.
parseIniConfig(iniConfig, resultsParsed) ==
  LET js == decodeConfigJobs(iniConfig.Jobs, resultsParsed)
      config == [Duration |-> iniConfig.Duration, Setup |-> iniConfig.Setup,
                 Teardown |-> iniConfig.Teardown, Jobs |-> js.Jobs]
      Jobs == config.Jobs
  IN IF js.err # ""
       THEN [err |-> js.err, config |-> NoConfig, created |-> js.created]
     ELSE IF \E i \in 1..Len(Jobs) :
               \/ config.Duration > 0 /\ Jobs[i].Start > config.Duration
               \/ /\ Jobs[i].Stop > 0
                  /\ config.Duration > 0
                  /\ Jobs[i].Stop > config.Duration
       THEN [err |-> "job starts or stops after test finishes.",
             config |-> NoConfig, created |-> js.created]
     ELSE [err |-> "", config |-> config, created |-> js.created]

\* parseJSONConfig without the test of the stop time.
parseJSONConfigNoStop(jsonConfig, order) ==
  LET js == validateConfigJobs(jsonConfig.Jobs, order)
      config == [Duration |-> IF isFieldSet(jsonConfig.Duration, 0)
                              THEN jsonConfig.Duration ELSE 0,
                 Setup |-> jsonConfig.Setup,
                 Teardown |-> jsonConfig.Teardown, Jobs |-> js.Jobs]
      Jobs == config.Jobs
  IN IF js.err # ""
       THEN [err |-> js.err, config |-> NoConfig, created |-> js.created]
     ELSE IF \E i \in 1..Len(Jobs) :
               config.Duration > 0 /\ Jobs[i].Start > config.Duration
       THEN [err |-> "job starts or stops after test finishes.",
             config |-> NoConfig, created |-> js.created]
     ELSE [err |-> "", config |-> config, created |-> js.created]

\* parseJSONConfig, with the same last loop.
parseJSONConfig(jsonConfig, order) ==
  LET js == validateConfigJobs(jsonConfig.Jobs, order)
      config == [Duration |-> IF isFieldSet(jsonConfig.Duration, 0)
                              THEN jsonConfig.Duration ELSE 0,
                 Setup |-> jsonConfig.Setup,
                 Teardown |-> jsonConfig.Teardown, Jobs |-> js.Jobs]
      Jobs == config.Jobs
  IN IF js.err # ""
       THEN [err |-> js.err, config |-> NoConfig, created |-> js.created]
     ELSE IF \E i \in 1..Len(Jobs) :
               \/ config.Duration > 0 /\ Jobs[i].Start > config.Duration
               \/ /\ Jobs[i].Stop > 0
                  /\ config.Duration > 0
                  /\ Jobs[i].Stop > config.Duration
       THEN [err |-> "job starts or stops after test finishes.",
             config |-> NoConfig, created |-> js.created]
     ELSE [err |-> "", config |-> config, created |-> js.created]

\* ------------------------------------------------------------- the inputs
\* Start times: negative, unset, late.  Stop times: unset, early, late.
StartTimes == {-1, 0, MaxTime}

StopTimes == {0, 1, MaxTime}

Durations == -1..MaxDuration

Rates == {NaN} \cup (-1..MaxRate)

\* Every combination of the options of one job.
AllJobOptions ==
  JobOptions(StartTimes, {0, MaxTime}, 0..MaxQueries, Rates,
             0..MaxBatchSize, 0..MaxQueueDepth, {0, MaxCount})

\* A well-formed job with one query and no explicit mode.
PlainJob ==
  [Start |-> 0, Stop |-> 0, Queries |-> 1, QueryArgsFile |-> FALSE,
   QueryArgsDelim |-> FALSE, QueryResultsFile |-> FALSE, Rate |-> 0,
   BatchSize |-> 0, QueueDepth |-> 0, Count |-> 0, MultiQueryMode |-> FALSE,
   QueryLogFile |-> FALSE]

\* Jobs for run-files with several jobs: they differ in their times and in
\* having a results file; one of them has no query.
TimedJobOptions ==
  {[PlainJob EXCEPT !.Start = a, !.Stop = b, !.QueryResultsFile = r] :
     a \in StartTimes, b \in StopTimes, r \in BOOLEAN}
  \cup {[PlainJob EXCEPT !.Queries = 0, !.QueryResultsFile = TRUE]}

\* A few jobs of each kind, for the runs of the whole program: the three
\* modes (one job unbounded, one with a count, one starting late), two
\* jobs asking for two modes, a job with a results file and no query.
RunJobOptions ==
  {PlainJob,
   [PlainJob EXCEPT !.Rate = 1, !.Count = MaxCount,
                    !.QueryResultsFile = TRUE],
   [PlainJob EXCEPT !.Queries = 0, !.QueryLogFile = TRUE, !.Start = MaxTime],
   [PlainJob EXCEPT !.Rate = 1, !.QueueDepth = 1],
   [PlainJob EXCEPT !.Queries = 0, !.QueryLogFile = TRUE, !.QueueDepth = 1],
   [PlainJob EXCEPT !.Queries = 0, !.QueryResultsFile = TRUE]}

SeqsUpTo(S, n) == UNION {[1..k -> S] : k \in 0..n}

\* The run-file and the command line: the syntax of the run-file (chosen by
\* isJSONFile), its contents, and whether -json names an output file.
\* encoding/json has no literal for NaN, so a JSON run-file has no NaN rate.
Inputs(jobLists, durations, setups, teardowns, jsonOutputs) ==
  {in \in [syntax : {"ini", "json"}, Duration : durations, Setup : setups,
           Teardown : teardowns, Jobs : jobLists,
           JsonOutputFile : jsonOutputs] :
     in.syntax = "json" => \A i \in 1..Len(in.Jobs) : in.Jobs[i].Rate # NaN}

\* Run-files for the parsers alone: one job of any kind, or several jobs
\* that differ in their times.
ParseInputs ==
  Inputs([1..1 -> AllJobOptions], {0, MaxDuration}, {0}, {0}, {FALSE})
  \cup Inputs(SeqsUpTo(TimedJobOptions, MaxJobs), Durations, {0}, {0},
              {FALSE})

RunInputs ==
  Inputs(SeqsUpTo(RunJobOptions, MaxJobs), {-1, 0, MaxDuration},
         {0, MaxSetup}, {0, MaxTeardown}, BOOLEAN)

\* ---------------------------------------------------------------- the state
VARIABLES
  input,        \* the run-file and flags the process was started with
  pc,           \* where main / runTest is
  exit,         \* "" while running, else how the process ended
  fatal,        \* which log.Fatal ended the process ("" if none)
  config,       \* the *Config returned by parseConfig
  created,      \* jobs whose query-results file was created or truncated
  db,           \* the database handle: "none", "open", "closed"
  setupRun,     \* setup queries run so far
  ctx,          \* the context handed to the drivers: "none", "live", "cancelled"
  cause,        \* what cancelled ctx: "", "interrupt", "deadline", "return"
  deadline,     \* a context.WithTimeout timer is armed
  notify,       \* signal.Notify relays os.Interrupt to cancelOnInterrupt
  drivers,      \* per job: "running", "queried" (it has issued a job
                \* query), "returned"
  logged,       \* the per-job statistics lines were logged
  summary,      \* the JSON summary file was written
  teardownRun,  \* teardown queries run so far
  reported      \* error messages logged, in order

vars ==
  <<input, pc, exit, fatal, config, created, db, setupRun, ctx, cause,
    deadline, notify, drivers, logged, summary, teardownRun, reported>>

runVars ==
  <<db, setupRun, ctx, cause, deadline, notify, drivers, logged, summary,
    teardownRun>>

Start(inputs) ==
  /\ input \in inputs
  /\ pc = "parseConfig"
  /\ exit = ""
  /\ fatal = ""
  /\ config = NoConfig
  /\ created = {}
  /\ db = "none"
  /\ setupRun = 0
  /\ ctx = "none"
  /\ cause = ""
  /\ deadline = FALSE
  /\ notify = FALSE
  /\ drivers = << >>
  /\ logged = FALSE
  /\ summary = FALSE
  /\ teardownRun = 0
  /\ reported = << >>

Init == Start(RunInputs)

InitParse == Start(ParseInputs)

\* log.Fatal / log.Fatalf: the message is logged and the process exits with
\* status 1; deferred calls do not run.
Fatal(where) ==
  /\ pc' = "exited"
  /\ exit' = "fatal"
  /\ fatal' = where
  /\ reported' = Append(reported, where)

\* main, lines 175-178: parse the run-file, fatal on an error.
ParseConfig ==
  /\ pc = "parseConfig"
  /\ \E resultsParsed \in BOOLEAN, order \in Orders(Len(input.Jobs)) :
       LET res == IF input.syntax = "json"
                  THEN parseJSONConfig(input, order)
                  ELSE parseIniConfig(input, resultsParsed)
       IN /\ created' = res.created
          /\ IF res.err # ""
             THEN /\ Fatal("parsing config file")
                  /\ UNCHANGED config
             ELSE /\ config' = res.config
                  /\ pc' = "connect"
                  /\ UNCHANGED <<exit, fatal, reported>>
  /\ UNCHANGED <<input, runVars>>

\* main, lines 180-185: connect to the database, fatal on an error; then
\* chdir and enter runTest.
Connect ==
  /\ pc = "connect"
  /\ \E ok \in BOOLEAN :
       IF ok
       THEN /\ db' = "open"
            /\ pc' = "setup"
            /\ UNCHANGED <<exit, fatal, reported>>
       ELSE /\ Fatal("Error connecting to the database")
            /\ UNCHANGED db
  /\ UNCHANGED <<input, config, created, setupRun, ctx, cause, deadline,
                 notify, drivers, logged, summary, teardownRun>>

\* SetupQuery with log.Printf in place of log.Fatalf.
SetupQueryLogOnly ==
  /\ pc = "setup"
  /\ setupRun < config.Setup
  /\ setupRun' = setupRun + 1
  /\ \E ok \in BOOLEAN :
       IF ok
       THEN UNCHANGED reported
       ELSE reported' = Append(reported, "error in setup query")
  /\ UNCHANGED <<input, pc, exit, fatal, config, created, db, ctx, cause,
                 deadline, notify, drivers, logged, summary, teardownRun>>

\* runTest, lines 73-77: run the next setup query, fatal on an error.
SetupQuery ==
  /\ pc = "setup"
  /\ setupRun < config.Setup
  /\ setupRun' = setupRun + 1
  /\ \E ok \in BOOLEAN :
       IF ok
       THEN UNCHANGED <<pc, exit, fatal, reported>>
       ELSE Fatal("error in setup query")
  /\ UNCHANGED <<input, config, created, db, ctx, cause, deadline, notify,
                 drivers, logged, summary, teardownRun>>

\* CreateContext not waiting for the setup queries.
CreateContextBeforeSetup ==
  /\ pc = "setup"
  /\ ctx' = "live"
  /\ notify' = TRUE
  /\ deadline' = (config.Duration > 0)
  /\ pc' = "startJobs"
  /\ UNCHANGED <<input, exit, fatal, config, created, db, setupRun, cause,
                 drivers, logged, summary, teardownRun, reported>>

\* CreateContext with the timeout armed for a zero duration as well.
CreateContextZeroTimeout ==
  /\ pc = "setup"
  /\ setupRun = config.Setup
  /\ ctx' = "live"
  /\ notify' = TRUE
  /\ deadline' = (config.Duration >= 0)
  /\ pc' = "startJobs"
  /\ UNCHANGED <<input, exit, fatal, config, created, db, setupRun, cause,
                 drivers, logged, summary, teardownRun, reported>>

\* runTest, lines 80-85: the cancellable context, the interrupt handler and,
\* for a positive duration, the timeout.
CreateContext ==
  /\ pc = "setup"
  /\ setupRun = config.Setup
  /\ ctx' = "live"
  /\ notify' = TRUE
  /\ deadline' = (config.Duration > 0)
  /\ pc' = "startJobs"
  /\ UNCHANGED <<input, exit, fatal, config, created, db, setupRun, cause,
                 drivers, logged, summary, teardownRun, reported>>

\* os.Interrupt arrives.  While signal.Notify relays it, the goroutine of
\* cancelOnInterrupt stops the relay and cancels the context; otherwise the
\* Go runtime ends the process.
Interrupt ==
  /\ pc # "exited"
  /\ IF notify
     THEN /\ notify' = FALSE
          /\ ctx' = "cancelled"
          /\ cause' = IF ctx = "live" THEN "interrupt" ELSE cause
          /\ UNCHANGED <<pc, exit>>
     ELSE /\ pc' = "exited"
          /\ exit' = "interrupted"
          /\ UNCHANGED <<notify, ctx, cause>>
  /\ UNCHANGED <<input, fatal, config, created, db, setupRun, deadline,
                 drivers, logged, summary, teardownRun, reported>>

\* The timer of context.WithTimeout fires at T0 + Duration.
Deadline ==
  /\ pc # "exited"
  /\ deadline
  /\ ctx = "live"
  /\ ctx' = "cancelled"
  /\ cause' = "deadline"
  /\ UNCHANGED <<input, pc, exit, fatal, config, created, db, setupRun,
                 deadline, notify, drivers, logged, summary, teardownRun,
                 reported>>

\* makeJobResultChan: one driver per job, all launched at once.
StartJobs ==
  /\ pc = "startJobs"
  /\ drivers' = [i \in 1..Len(config.Jobs) |-> "running"]
  /\ pc' = "processResults"
  /\ UNCHANGED <<input, exit, fatal, config, created, db, setupRun, ctx,
                 cause, deadline, notify, logged, summary, teardownRun,
                 reported>>

\* A job that ends by itself: a stop time, a count, a query log or an args
\* file to run out of.
Bounded(job) ==
  job.Stop > 0 \/ job.Count > 0 \/ job.QueryLog \/ job.QueryArgs

\* A running driver issues a job query on the database.
DriverQuery ==
  /\ pc = "processResults"
  /\ \E i \in 1..Len(drivers) :
       /\ drivers[i] = "running"
       /\ drivers' = [drivers EXCEPT ![i] = "queried"]
  /\ UNCHANGED <<input, pc, exit, fatal, config, created, db, setupRun, ctx,
                 cause, deadline, notify, logged, summary, teardownRun,
                 reported>>

\* A driver returns: its job has ended or the context is cancelled.
DriverReturn ==
  /\ pc = "processResults"
  /\ \E i \in 1..Len(drivers) :
       /\ drivers[i] \in {"running", "queried"}
       /\ ctx = "cancelled" \/ Bounded(config.Jobs[i])
       /\ drivers' = [drivers EXCEPT ![i] = "returned"]
  /\ UNCHANGED <<input, pc, exit, fatal, config, created, db, setupRun, ctx,
                 cause, deadline, notify, logged, summary, teardownRun,
                 reported>>

\* ProcessResults returning as soon as one driver has returned.
ProcessResultsFirstDriver ==
  /\ pc = "processResults"
  /\ \E i \in 1..Len(drivers) : drivers[i] = "returned"
  /\ pc' = "logStats"
  /\ UNCHANGED <<input, exit, fatal, config, created, db, setupRun, ctx,
                 cause, deadline, notify, drivers, logged, summary,
                 teardownRun, reported>>

\* runTest, line 87: processResults returns the statistics once every
\* driver has returned and the results are consumed.
ProcessResults ==
  /\ pc = "processResults"
  /\ \A i \in 1..Len(drivers) : drivers[i] = "returned"
  /\ pc' = "logStats"
  /\ UNCHANGED <<input, exit, fatal, config, created, db, setupRun, ctx,
                 cause, deadline, notify, drivers, logged, summary,
                 teardownRun, reported>>

\* runTest, lines 89-91: one log line per job.
LogStats ==
  /\ pc = "logStats"
  /\ logged' = TRUE
  /\ pc' = "writeStats"
  /\ UNCHANGED <<input, exit, fatal, config, created, db, setupRun, ctx,
                 cause, deadline, notify, drivers, summary, teardownRun,
                 reported>>

\* WriteStatsToFile with log.Printf in place of log.Fatalf.
WriteStatsToFileLogOnly ==
  /\ pc = "writeStats"
  /\ pc' = "teardown"
  /\ IF input.JsonOutputFile
     THEN \E ok \in BOOLEAN :
            IF ok
            THEN /\ summary' = TRUE
                 /\ UNCHANGED reported
            ELSE /\ reported' = Append(reported, "creating output file")
                 /\ UNCHANGED summary
     ELSE UNCHANGED <<summary, reported>>
  /\ UNCHANGED <<input, exit, fatal, config, created, db, setupRun, ctx,
                 cause, deadline, notify, drivers, logged, teardownRun>>

\* runTest, lines 93-95, and writeStatsToFile: with -json, create the file
\* and encode the summary, fatal when either fails.
WriteStatsToFile ==
  /\ pc = "writeStats"
  /\ IF input.JsonOutputFile
     THEN \E ok \in BOOLEAN :
            IF ok
            THEN /\ summary' = TRUE
                 /\ pc' = "teardown"
                 /\ UNCHANGED <<exit, fatal, reported>>
            ELSE /\ Fatal("creating output file")
                 /\ UNCHANGED summary
     ELSE /\ pc' = "teardown"
          /\ UNCHANGED <<summary, exit, fatal, reported>>
  /\ UNCHANGED <<input, config, created, db, setupRun, ctx, cause, deadline,
                 notify, drivers, logged, teardownRun>>

\* TeardownQuery with log.Printf in place of log.Fatalf.
TeardownQueryLogOnly ==
  /\ pc = "teardown"
  /\ teardownRun < config.Teardown
  /\ teardownRun' = teardownRun + 1
  /\ \E ok \in BOOLEAN :
       IF ok
       THEN UNCHANGED reported
       ELSE reported' = Append(reported, "error in teardown query")
  /\ UNCHANGED <<input, pc, exit, fatal, config, created, db, setupRun, ctx,
                 cause, deadline, notify, drivers, logged, summary>>

\* runTest, lines 99-103: run the next teardown query, fatal on an error.
TeardownQuery ==
  /\ pc = "teardown"
  /\ teardownRun < config.Teardown
  /\ teardownRun' = teardownRun + 1
  /\ \E ok \in BOOLEAN :
       IF ok
       THEN UNCHANGED <<pc, exit, fatal, reported>>
       ELSE Fatal("error in teardown query")
  /\ UNCHANGED <<input, config, created, db, setupRun, ctx, cause, deadline,
                 notify, drivers, logged, summary>>

\* runTest returns (deferred cancel) and main returns (deferred db.Close).
Return ==
  /\ pc = "teardown"
  /\ teardownRun = config.Teardown
  /\ ctx' = "cancelled"
  /\ cause' = IF ctx = "live" THEN "return" ELSE cause
  /\ db' = "closed"
  /\ pc' = "exited"
  /\ exit' = "ok"
  /\ UNCHANGED <<input, fatal, config, created, setupRun, deadline, notify,
                 drivers, logged, summary, teardownRun, reported>>

NextParse == ParseConfig

SpecParse == InitParse /\ [][NextParse]_vars

Next ==
  \/ ParseConfig
  \/ Connect
  \/ SetupQuery
  \/ CreateContext
  \/ Interrupt
  \/ Deadline
  \/ StartJobs
  \/ DriverQuery
  \/ DriverReturn
  \/ ProcessResults
  \/ LogStats
  \/ WriteStatsToFile
  \/ TeardownQuery
  \/ Return

Spec == Init /\ [][Next]_vars

\* ================================================================ claims
\* parseConfig returned an error.
Rejected == fatal = "parsing config file"

JobIds == 1..Len(input.Jobs)

\* The number of modes among rate > 0, queueDepth > 0 and a query log.
ModesOfJob(job) ==
  (IF FloatGreater(job.Rate, 0) THEN 1 ELSE 0)
  + (IF job.QueueDepth > 0 THEN 1 ELSE 0)
  + (IF job.QueryLog THEN 1 ELSE 0)

ModesAsked(opts) ==
  (IF FloatGreater(opts.Rate, 0) THEN 1 ELSE 0)
  + (IF opts.QueueDepth > 0 THEN 1 ELSE 0)
  + (IF opts.QueryLogFile THEN 1 ELSE 0)

\* C1: every accepted Job has exactly one of rate > 0, queueDepth > 0 and a
\* query log; when the run-file asked for none of them, queueDepth is 1.
C1_ExactlyOneMode ==
  pc = "connect" =>
    \A i \in JobIds :
      /\ ModesOfJob(config.Jobs[i]) = 1
      /\ ModesAsked(input.Jobs[i]) = 0 => config.Jobs[i].QueueDepth = 1

C1_Witness ==
  /\ pc = "connect"
  /\ \E i \in JobIds :
       /\ ModesAsked(input.Jobs[i]) = 0
       /\ input.Jobs[i].QueueDepth = 0
       /\ config.Jobs[i].QueueDepth = 1
       /\ ModesOfJob(config.Jobs[i]) = 1

\* C2: a run-file with a job asking for more than one mode is refused before
\* anything runs: no connection, no setup query, no context, no driver.
C2_MultiModeRejected ==
  (\E i \in JobIds : ModesAsked(input.Jobs[i]) > 1) =>
    /\ pc \in {"parseConfig", "exited"}
    /\ (pc = "exited" /\ exit # "interrupted") => Rejected
    /\ db = "none"
    /\ setupRun = 0
    /\ ctx = "none"
    /\ drivers = << >>
    /\ config = NoConfig

C2_Witness ==
  /\ \E i \in JobIds :
       /\ FloatGreater(input.Jobs[i].Rate, 0)
       /\ input.Jobs[i].QueueDepth > 0
  /\ Rejected
  /\ db = "none"

\* A message is in the log.
Reported(msg) == \E k \in 1..Len(reported) : reported[k] = msg

SetupFailed == Reported("error in setup query")

TeardownFailed == Reported("error in teardown query")

\* C3: an error of a setup query ends the test at that query: no later
\* setup query, no context, no driver, no statistics, no teardown query.
C3_SetupErrorAborts ==
  /\ [](SetupFailed =>
          /\ pc = "exited"
          /\ exit = "fatal"
          /\ fatal = "error in setup query"
          /\ ctx = "none"
          /\ drivers = << >>
          /\ ~logged
          /\ ~summary
          /\ teardownRun = 0)
  /\ [][SetupFailed =>
          UNCHANGED <<setupRun, ctx, drivers, logged, summary, teardownRun>>]_vars

C3_Witness ==
  /\ SetupFailed
  /\ pc = "exited"
  /\ setupRun < config.Setup
  /\ config.Teardown > 0
  /\ Len(config.Jobs) > 0

\* C4 as stated: an error of a teardown query is reported and never fatal,
\* and the remaining teardown queries are still attempted.
C4_Original ==
  TeardownFailed =>
    /\ exit # "fatal"
    /\ pc = "exited" => teardownRun = config.Teardown

\* C4, amended: an error of a teardown query is reported and is fatal: the
\* process exits at that query with a non-zero status, whether or not the
\* context was cancelled, and the remaining teardown queries are not run.
C4_TeardownErrorFatal ==
  /\ [](TeardownFailed =>
          /\ pc = "exited"
          /\ exit = "fatal"
          /\ fatal = "error in teardown query")
  /\ [][TeardownFailed => UNCHANGED teardownRun]_vars

C4_Witness ==
  /\ TeardownFailed
  /\ exit = "fatal"
  /\ teardownRun < config.Teardown
  /\ cause = "interrupt"

AllDriversReturned ==
  /\ Len(drivers) = Len(config.Jobs)
  /\ \A i \in 1..Len(drivers) : drivers[i] = "returned"

\* C5 as stated: once setup has completed, every teardown query is issued,
\* and only after all drivers have returned; here for a process that has
\* ended by itself.
C5_Original ==
  /\ teardownRun > 0 => AllDriversReturned
  /\ (pc = "exited" /\ exit # "interrupted" /\ ctx # "none") =>
       teardownRun = config.Teardown

\* C5, amended: teardown queries are issued only after setup has completed
\* and all drivers have returned, whatever cancelled the context, and a run
\* that ends normally has issued every one of them; a run ended by
\* log.Fatalf (summary file, teardown query) or by an interrupt that is no
\* longer relayed leaves the remaining ones unissued.
C5_TeardownAfterDrivers ==
  /\ teardownRun > 0 =>
       /\ ctx # "none"
       /\ setupRun = config.Setup
       /\ AllDriversReturned
       /\ pc \in {"teardown", "exited"}
  /\ exit = "ok" => teardownRun = config.Teardown /\ AllDriversReturned

C5_Witness ==
  /\ exit = "ok"
  /\ teardownRun = config.Teardown
  /\ config.Teardown > 1
  /\ Len(drivers) > 1
  /\ cause = "interrupt"

\* C6: the context of the drivers is created once setup has completed; an
\* interrupt cancels it; a deadline is armed exactly when duration > 0, and
\* only then can the deadline cancel it; once cancelled it stays cancelled.
C6_Token ==
  /\ [](ctx # "none" => setupRun = config.Setup /\ ~SetupFailed)
  /\ [](deadline <=> (ctx # "none" /\ config.Duration > 0))
  /\ [][ctx = "cancelled" => ctx' = "cancelled"]_vars
  /\ [][(notify /\ ~notify') => ctx' = "cancelled"]_vars
  /\ [][(ctx = "live" /\ ctx' = "cancelled") =>
          /\ cause' \in {"interrupt", "deadline", "return"}
          /\ cause' = "deadline" => config.Duration > 0]_vars
  /\ [][(ctx = "none" /\ ctx' # "none") =>
          ctx' = "live" /\ pc = "setup" /\ setupRun = config.Setup]_vars

C6_Witness ==
  /\ ctx = "cancelled"
  /\ cause = "deadline"
  /\ config.Duration > 0
  /\ config.Setup > 0
  /\ pc = "processResults"

\* C7 as stated: every job of a returned Config has 0 <= start <= stop.
C7_Original ==
  pc = "connect" =>
    \A i \in JobIds :
      0 <= config.Jobs[i].Start /\ config.Jobs[i].Start <= config.Jobs[i].Stop

\* C7, amended: every job of a returned Config has the start and the stop of
\* the run-file, unchanged; the parsers test neither 0 <= start nor
\* start <= stop, so the order holds of a job exactly when the run-file
\* has it.
C7_TimesAsGiven ==
  pc = "connect" =>
    \A i \in JobIds :
      /\ config.Jobs[i].Start = input.Jobs[i].Start
      /\ config.Jobs[i].Stop = input.Jobs[i].Stop

C7_Witness ==
  /\ pc = "connect"
  /\ \E i \in JobIds :
       /\ config.Jobs[i].Stop > 0
       /\ config.Jobs[i].Start > config.Jobs[i].Stop
       /\ config.Jobs[i].Start = input.Jobs[i].Start
  /\ \E i \in JobIds : config.Jobs[i].Start < 0

\* C8: a returned Config with duration > 0 has start <= duration and
\* stop <= duration for every job, and a run-file with a job beyond either
\* bound is refused: no Config is returned.
C8_WithinDuration ==
  /\ (pc = "connect" /\ config.Duration > 0) =>
       \A i \in JobIds :
         /\ config.Jobs[i].Start <= config.Duration
         /\ config.Jobs[i].Stop <= config.Duration
  /\ (/\ pc # "parseConfig"
      /\ input.Duration > 0
      /\ \E i \in JobIds : \/ input.Jobs[i].Start > input.Duration
                           \/ input.Jobs[i].Stop > input.Duration) =>
       Rejected /\ config = NoConfig

\* A job the validators accept (the time test aside).
WellFormed(opts) ==
  /\ opts.Queries = 1
  /\ ~opts.QueryLogFile
  /\ ~opts.QueryArgsDelim
  /\ opts.BatchSize = 0
  /\ ~FloatLess(opts.Rate, 0)
  /\ ModesAsked(opts) <= 1

C8_Witness ==
  /\ Rejected
  /\ config = NoConfig
  /\ input.Duration > 0
  /\ Len(input.Jobs) = 2
  /\ \A i \in JobIds : WellFormed(input.Jobs[i])
  /\ input.Jobs[1].Start <= input.Duration
  /\ input.Jobs[1].Stop <= input.Duration
  /\ input.Jobs[2].Start <= input.Duration
  /\ input.Jobs[2].Stop > input.Duration

\* C9 as stated: a refused run-file leaves no side effect: no results file
\* created or truncated, no connection, no query run.
C9_NoSideEffects ==
  Rejected => created = {} /\ db = "none" /\ setupRun = 0 /\ teardownRun = 0

\* The outcome of the syntax that this run did not use, on the same values.
OtherPath ==
  IF input.syntax = "json"
  THEN parseIniConfig(input, TRUE)
  ELSE parseJSONConfig(input, [i \in JobIds |-> i])

\* Values that both syntaxes can express.
InBothSyntaxes == \A i \in JobIds : input.Jobs[i].Rate # NaN

\* C10: on the same field values and duration the INI path and the JSON
\* path both refuse or both accept, and then return the same jobs.
C10_PathsAgree ==
  InBothSyntaxes =>
    /\ pc = "connect" => OtherPath.err = "" /\ OtherPath.config = config
    /\ Rejected => OtherPath.err # ""

C10_Witness ==
  /\ pc = "connect"
  /\ input.syntax = "json"
  /\ OtherPath.config = config
  /\ FloatGreater(input.Jobs[1].Rate, 0)
  /\ input.Jobs[1].BatchSize = 0
  /\ config.Jobs[1].BatchSize = 1
  /\ input.Jobs[1].QueryArgsFile
  /\ input.Jobs[1].Count > 0

\* C11 as stated: every accepted Job has rate >= 0, and batchSize > 0 only
\* with rate > 0; a job given batchSize > 0 with rate = 0 is refused; a job
\* given rate > 0 and batchSize = 0 is accepted with batchSize = 1.
C11_RateAndBatchSize ==
  /\ pc = "connect" =>
       \A i \in JobIds :
         /\ FloatGreater(config.Jobs[i].Rate, 0)
              \/ FloatEqual(config.Jobs[i].Rate, 0)
         /\ config.Jobs[i].BatchSize > 0 =>
              FloatGreater(config.Jobs[i].Rate, 0)
         /\ FloatGreater(input.Jobs[i].Rate, 0)
              /\ input.Jobs[i].BatchSize = 0 =>
              config.Jobs[i].BatchSize = 1
  /\ (/\ pc # "parseConfig"
      /\ \E i \in JobIds : /\ input.Jobs[i].BatchSize > 0
                           /\ FloatEqual(input.Jobs[i].Rate, 0)) =>
       Rejected

\* The error the job validator of the run-file's syntax returns for job i.
SectionErr(i) ==
  IF input.syntax = "ini"
  THEN decodeJobSection(input.Jobs[i], TRUE).err
  ELSE validateJobSection(input.Jobs[i]).err

\* C12: every accepted Job has exactly one of queries and a query log; a
\* job with neither is refused with "no query provided", a job with both is
\* refused.
C12_QueriesXorLog ==
  /\ pc = "connect" =>
       \A i \in JobIds :
         (config.Jobs[i].Queries > 0) # config.Jobs[i].QueryLog
  /\ (/\ pc # "parseConfig"
      /\ \E i \in JobIds :
           (input.Jobs[i].Queries > 0) = input.Jobs[i].QueryLogFile) =>
       Rejected
  /\ \A i \in JobIds :
       (/\ input.Jobs[i].Queries = 0
        /\ ~input.Jobs[i].QueryLogFile
        /\ ~FloatLess(input.Jobs[i].Rate, 0)) =>
         SectionErr(i) = "no query provided"

C12_Witness ==
  /\ Rejected
  /\ input.syntax = "ini"
  /\ Len(input.Jobs) = 1
  /\ input.Jobs[1].Queries = 1
  /\ input.Jobs[1].QueryLogFile
  /\ ~input.Jobs[1].QueryArgsFile
  /\ ~input.Jobs[1].QueryArgsDelim
  /\ input.Jobs[1].QueueDepth = 0
  /\ input.Jobs[1].BatchSize = 0
  /\ FloatEqual(input.Jobs[1].Rate, 0)
  /\ SectionErr(1) = "cannot have both queries and a query log"

\* C13: setup queries run one at a time, in the order of the config, and
\* until every one of them has returned without error there is no
\* cancellation token, no deadline, no interrupt handler, no driver and no
\* job query.
C13_SetupBeforeDrivers ==
  /\ []((\/ ctx # "none"
         \/ deadline
         \/ notify
         \/ drivers # << >>) =>
          /\ setupRun = config.Setup
          /\ ~SetupFailed)
  /\ [][setupRun' # setupRun =>
          /\ setupRun' = setupRun + 1
          /\ setupRun' <= config.Setup
          /\ pc = "setup"
          /\ ctx = "none"
          /\ ~deadline
          /\ drivers = << >>
          /\ ~SetupFailed]_vars

C13_Witness ==
  /\ config.Setup = MaxSetup
  /\ setupRun = MaxSetup
  /\ ~SetupFailed
  /\ ctx = "live"
  /\ deadline
  /\ Len(drivers) = 2
  /\ drivers[1] = "queried"
  /\ drivers[2] = "running"

\* Writing the JSON summary file failed.
SummaryFailed == Reported("creating output file")

\* C14 as stated: the statistics are logged and the summary file is written
\* only after teardown has run, so a failure to write the summary finds
\* every teardown query run.
C14_Original ==
  (logged \/ summary \/ SummaryFailed) => teardownRun = config.Teardown

\* C14: the statistics are logged and the summary file, when asked for, is
\* written after all drivers have returned and before the first teardown
\* query; a failure to write the summary file ends the process and no
\* teardown query runs.
C14_SummaryBeforeTeardown ==
  /\ (logged \/ summary \/ SummaryFailed) => AllDriversReturned
  /\ summary \/ SummaryFailed => logged /\ input.JsonOutputFile
  /\ (pc = "teardown" \/ teardownRun > 0) =>
       /\ logged
       /\ summary = input.JsonOutputFile
       /\ ~SummaryFailed
  /\ SummaryFailed =>
       /\ pc = "exited"
       /\ exit = "fatal"
       /\ fatal = "creating output file"
       /\ ~summary
       /\ teardownRun = 0

C14_Witness ==
  /\ SummaryFailed
  /\ logged
  /\ exit = "fatal"
  /\ config.Teardown = MaxTeardown
  /\ teardownRun = 0
  /\ Len(drivers) > 0

====
